---- MODULE Spec2Model ----
(***************************************************************************)
(* Model of the cx-vcc configuration store and of the `sync` command       *)
(* (syncCommand / syncProviderNumbers) that reconciles the locally stored   *)
(* phone numbers of VAPI, Retell and ElevenLabs with each provider's        *)
(* remote list.                                                            *)
(*                                                                         *)
(* The persisted YAML document is the variable `store`.  A command reads   *)
(* it with getConfig and writes it with saveConfig.  One run of the sync   *)
(* command is one action; `last` records what the run was given, what each *)
(* provider pass did and every document that was persisted on the way.    *)
(***************************************************************************)
EXTENDS Integers, Sequences, FiniteSets, TLC

VARIABLES store, last

vars == <<store, last>>

---------------------------------------------------------------------------
(* Universe of the model *)

\* cap on what the initial document holds: recorded (map, number) entries
\* plus providers left without an API key
MaxEntries == 2

Numbers == {"+12025551234", "+19995551111"}

\* domains of the store, in the key order of the document
DomainOrder == <<"d1.cloudonix.net", "d2.cloudonix.net">>

Domains == {DomainOrder[i] : i \in 1..Len(DomainOrder)}

\* a domain name that is never configured
AbsentDomain == "d3.cloudonix.net"

\* an option that was not given on the command line
NoArg == "undefined"

DomainArgs == {NoArg} \cup Domains \cup {AbsentDomain}

\* a provider name nobody registered
UnknownProvider == "bland"

ProviderArgs == {NoArg, "vapi", "retell", "elevenlabs", "11labs", UnknownProvider}

\* top-level provider sections of the document
ConfigKeys == {"vapi", "retell", "elevenlabs"}

\* provider sections of a domain record
SectionKeys == {"vapi", "retell", "elevenlabs", "11labs"}

\* a key that is absent from an object
Absent == "absent"

DefaultElevenLabsUrl == "https://api.elevenlabs.io"

EmptyMap == [n \in {} |-> "rec"]

\* a phoneNumbers object: number -> stored record
MapOf(S) == [n \in S |-> "rec"]

MapDelete(m, S) == [n \in (DOMAIN m) \ S |-> m[n]]

---------------------------------------------------------------------------
(* The configuration store: utils/config.js *)

\* `${autoAlias}.sip.cloudonix.net`: a concatenation is the sequence of its
\* parts, the empty string the empty sequence
SipSuffix == ".sip.cloudonix.net"

SipUriOf(autoAlias) == <<autoAlias, SipSuffix>>

EmptyString == <<>>

\* a provider section of a domain record; a section the record does not
\* have is defined FALSE, without trunk and numbers
Section(defined, trunk, map) ==
    [defined |-> defined, trunkCredentialId |-> trunk, phoneNumbers |-> map]

\* a domain record: the Cloudonix fields configure writes, plus one section
\* per provider key
DomainOf(apiKey, alias, autoAlias, inboundSipUri, sections) ==
    [apiKey |-> apiKey, alias |-> alias, autoAlias |-> autoAlias,
     inboundSipUri |-> inboundSipUri, tenant |-> "self", sections |-> sections]

\* a configured domain whose sections hold the given phone-number maps
DomainRecord(name, maps) ==
    DomainOf("cxkey", name, name, SipUriOf(name),
             [k \in SectionKeys |-> Section(TRUE, Absent, maps[k])])

\* a getConfig that spreads the stored elevenlabs section like the other two
GetConfigWholeSections(file) ==
    [domains |-> file.domains,
     vapi |-> file.vapi,
     retell |-> file.retell,
     elevenlabs |-> file.elevenlabs]

\* getConfig: the document as a command sees it.  vapi and retell are the
\* stored sections over the defaults; of elevenlabs only apiKey is kept.
GetConfig(file) ==
    [domains |-> file.domains,
     vapi |-> file.vapi,
     retell |-> file.retell,
     elevenlabs |-> [apiKey |-> file.elevenlabs.apiKey,
                     apiUrl |-> Absent,
                     phoneNumbers |-> EmptyMap]]

\* saveConfig: the whole object replaces the document
SaveConfig(config) == config

---------------------------------------------------------------------------
(* Provider clients *)

\* what the provider's list endpoint answers in one pass
Tags == {"byo-phone-number", "vapi"}

Item(n, tag, src) == [number |-> n, provider |-> tag, source |-> src]

Throw == [kind |-> "throw", items |-> {}]

NonArray == [kind |-> "nonarray", items |-> {}]

Array(items) == [kind |-> "array", items |-> items]

\* no request was sent
NoOutcome == [kind |-> "none", items |-> {}]

\* VAPI lists entries of several kinds; each number is listed at most once
VapiArrays ==
    {Array({Item(n, t[n], "api") : n \in DOMAIN t}) :
        t \in UNION {[S -> Tags] : S \in SUBSET Numbers}}

PlainArrays == {Array({Item(n, "sip_trunk", "api") : n \in S}) : S \in SUBSET Numbers}

Outcomes(name) ==
    {Throw, NonArray} \cup (IF name = "VAPI" THEN VapiArrays ELSE PlainArrays)

\* VapiApiService: the constructor writes nothing; getPhoneNumbers returns
\* response.data or throws
VapiFetch(file, apiKey, apiUrl, outcome) ==
    [file |-> file, writes |-> 0, result |-> outcome]

\* RetellApiService._updateConfig, called by the constructor
RetellUpdateConfig(file, apiKey, baseUrl) ==
    LET config == GetConfig(file)
    IN SaveConfig([config EXCEPT !.retell.apiKey = apiKey, !.retell.apiUrl = baseUrl])

\* RetellApiService.getPhoneNumbers: returns the listed array or throws
RetellGetPhoneNumbers(outcome) == outcome

RetellFetch(file, apiKey, apiUrl, outcome) ==
    [file |-> RetellUpdateConfig(file, apiKey, apiUrl),
     writes |-> 1,
     result |-> RetellGetPhoneNumbers(outcome)]

\* ElevenLabsAgentProvider._updateConfig, called by the constructor
ElevenLabsUpdateConfig(file, apiKey, baseUrl) ==
    LET config == GetConfig(file)
    IN SaveConfig([config EXCEPT !.elevenlabs.apiKey = apiKey,
                                 !.elevenlabs.apiUrl = baseUrl])

\* the records getPhoneNumbers builds from config.elevenlabs.phoneNumbers
LocalNumbers(file, src) ==
    LET config == GetConfig(file)
    IN {Item(n, "sip_trunk", src) : n \in DOMAIN config.elevenlabs.phoneNumbers}

\* ElevenLabsAgentProvider.getPhoneNumbers: never throws
ElevenLabsGetPhoneNumbers(file, outcome) ==
    IF outcome.kind = "array" /\ outcome.items # {}
    THEN outcome
    ELSE IF outcome.kind = "throw"
         THEN Array(LocalNumbers(file, "local_config_fallback"))
         ELSE Array(LocalNumbers(file, "local_config"))

ElevenLabsFetch(file, apiKey, apiUrl, outcome) ==
    LET baseUrl == IF apiUrl = Absent THEN DefaultElevenLabsUrl ELSE apiUrl
        written == ElevenLabsUpdateConfig(file, apiKey, baseUrl)
    IN [file |-> written,
        writes |-> 1,
        result |-> ElevenLabsGetPhoneNumbers(written, outcome)]

---------------------------------------------------------------------------
(* commands/sync.js: syncProviderNumbers *)

PassNames == <<"VAPI", "Retell", "11Labs">>

PassSet == {PassNames[i] : i \in 1..Len(PassNames)}

\* providerName.toLowerCase()
Lower(name) ==
    CASE name = "VAPI" -> "vapi"
      [] name = "Retell" -> "retell"
      [] name = "11Labs" -> "11labs"

\* the top-level section syncCommand hands to the pass as providerConfig
ConfigKeyOf(name) ==
    CASE name = "VAPI" -> "vapi"
      [] name = "Retell" -> "retell"
      [] name = "11Labs" -> "elevenlabs"

\* providerKeys / configKeys: both spellings for 11Labs
ProviderKeys(name) ==
    IF Lower(name) = "11labs" THEN {"elevenlabs", "11labs"} ELSE {Lower(name)}

\* the numbers a domain records for the provider, under any of its keys
DomainNumbers(config, d, name) ==
    UNION {DOMAIN config.domains[d].sections[k].phoneNumbers : k \in ProviderKeys(name)}

\* Object.keys(config.domains), in document order
AllDomains(config) ==
    SelectSeq(DomainOrder, LAMBDA d : d \in DOMAIN config.domains)

\* hasPhoneNumbers: the global map or a considered domain holds a number
HasPhoneNumbers(config, providerConfig, name, domainFilter) ==
    \/ DOMAIN providerConfig.phoneNumbers # {}
    \/ IF domainFilter # NoArg
       THEN /\ domainFilter \in DOMAIN config.domains
            /\ DomainNumbers(config, domainFilter, name) # {}
       ELSE \E d \in DOMAIN config.domains : DomainNumbers(config, d, name) # {}

\* config.domains[domainFilter] is read without a check once hasPhoneNumbers
\* is true: an unknown domain ends the command with a TypeError
FilterCrashes(config, domainFilter) ==
    domainFilter # NoArg /\ domainFilter \notin DOMAIN config.domains

\* the first domain, in document order, that records the number
FirstDomain(config, name, n) ==
    LET ds == AllDomains(config)
        i == CHOOSE j \in 1..Len(ds) :
                 /\ n \in DomainNumbers(config, ds[j], name)
                 /\ \A k \in 1..(j - 1) : n \notin DomainNumbers(config, ds[k], name)
    IN ds[i]

\* phonesForDomain: 'global' first, then overwritten by the filtered domain,
\* or (unfiltered) by the first domain that records the number
PhonesForDomain(config, providerConfig, name, domainFilter) ==
    LET global == DOMAIN providerConfig.phoneNumbers
        considered == IF domainFilter # NoArg THEN {domainFilter} ELSE DOMAIN config.domains
        inDomains == UNION {DomainNumbers(config, d, name) : d \in considered}
    IN [n \in global \cup inDomains |->
          IF n \notin inDomains THEN "global"
          ELSE IF domainFilter # NoArg THEN domainFilter
          ELSE FirstDomain(config, name, n)]

\* an extraction that keeps the entries of every provider tag
RemotePhoneNumbersAnyTag(name, remoteData) ==
    IF remoteData.kind = "array"
    THEN {i.number : i \in remoteData.items} \ {""}
    ELSE {}

\* remotePhoneNumbers: extracted only when the answer is an array
RemotePhoneNumbers(name, remoteData) ==
    IF remoteData.kind = "array"
    THEN IF name = "VAPI"
         THEN {i.number : i \in {j \in remoteData.items : j.provider = "byo-phone-number"}}
         ELSE {i.number : i \in remoteData.items} \ {""}
    ELSE {}

\* numbersToRemove: local numbers the remote list does not contain
NumbersToRemove(localPhoneNumbers, remotePhoneNumbers) ==
    {n \in localPhoneNumbers : n \notin remotePhoneNumbers}

\* a removal loop that does not skip numbers tracked outside the filter
ActedUnfiltered(numbersToRemove, phonesForDomain, domainFilter) == numbersToRemove

\* the numbers the removal loop acts on: with a filter, only those tracked
\* under the filtered domain
Acted(numbersToRemove, phonesForDomain, domainFilter) ==
    {n \in numbersToRemove : domainFilter = NoArg \/ phonesForDomain[n] = domainFilter}

\* a removal loop without the global delete
RemoveGlobalNoop(config, name, acted) == config

\* delete config[configKey].phoneNumbers[number] for every acted number
RemoveGlobal(config, name, acted) ==
    [k \in DOMAIN config |->
        IF k \in ProviderKeys(name) /\ k \in ConfigKeys
        THEN [config[k] EXCEPT !.phoneNumbers = MapDelete(@, acted)]
        ELSE config[k]]

\* delete domainConfig[configKey].phoneNumbers[number] in the tracked domain
RemoveDomain(config, name, acted, phonesForDomain) ==
    [config EXCEPT !.domains =
        [d \in DOMAIN config.domains |->
            [config.domains[d] EXCEPT !.sections =
                [k \in SectionKeys |->
                    IF k \in ProviderKeys(name)
                    THEN [config.domains[d].sections[k] EXCEPT !.phoneNumbers =
                            MapDelete(@, {n \in acted : phonesForDomain[n] = d})]
                    ELSE config.domains[d].sections[k]]]]]

\* removedCount: one per acted number found in its tracked domain
RemovedCount(config, name, acted, phonesForDomain) ==
    Cardinality({n \in acted :
        /\ phonesForDomain[n] \in DOMAIN config.domains
        /\ n \in DomainNumbers(config, phonesForDomain[n], name)})

\* fetchRemoteNumbers: the closure syncCommand builds for the provider
FetchRemoteNumbers(name, file, providerConfig, outcome) ==
    CASE name = "VAPI" -> VapiFetch(file, providerConfig.apiKey, providerConfig.apiUrl, outcome)
      [] name = "Retell" -> RetellFetch(file, providerConfig.apiKey, providerConfig.apiUrl, outcome)
      [] name = "11Labs" -> ElevenLabsFetch(file, providerConfig.apiKey, providerConfig.apiUrl, outcome)

\* what one call of syncProviderNumbers (or its skipping) leaves behind
PassResult(status, before, after, outcome, remoteData, pfd, remote, acted, deleted, count, writes, saved) ==
    [status |-> status, before |-> before, after |-> after,
     outcome |-> outcome, remoteData |-> remoteData,
     phonesForDomain |-> pfd, remotePhoneNumbers |-> remote,
     acted |-> acted, deleted |-> deleted,
     removedCount |-> count, writes |-> writes, saved |-> saved]

\* a pass that did not get as far as the remote request
EarlyResult(status, file) ==
    PassResult(status, file, file, NoOutcome, NoOutcome, EmptyMap, {}, {}, {}, 0, 0, FALSE)

\* the removal loop and the final save
RemovalResult(name, file, config, fetched, outcome, pfd, remote, domainFilter) ==
    LET toRemove == NumbersToRemove(DOMAIN pfd, remote)
        acted == Acted(toRemove, pfd, domainFilter)
        pruned == RemoveDomain(RemoveGlobal(config, name, acted), name, acted, pfd)
        count == RemovedCount(config, name, acted, pfd)
        deleted == {n \in acted :
                      \/ \E k \in ProviderKeys(name) \cap ConfigKeys :
                            n \in DOMAIN config[k].phoneNumbers
                      \/ /\ pfd[n] \in DOMAIN config.domains
                         /\ n \in DomainNumbers(config, pfd[n], name)}
    IN IF toRemove = {}
       THEN PassResult("insync", file, fetched.file, outcome, fetched.result,
                       pfd, remote, {}, {}, 0, fetched.writes, FALSE)
       ELSE IF count > 0
       THEN PassResult("removed", file, SaveConfig(pruned), outcome, fetched.result,
                       pfd, remote, acted, deleted, count, fetched.writes + 1, TRUE)
       ELSE PassResult("removed", file, fetched.file, outcome, fetched.result,
                       pfd, remote, acted, deleted, 0, fetched.writes, FALSE)

\* a pass without the try/catch around the remote request: the rejection
\* reaches syncCommand and ends it
SyncProviderNumbersNoCatch(name, file, providerConfig, domainFilter, outcome) ==
    LET config == GetConfig(file)
    IN IF ~HasPhoneNumbers(config, providerConfig, name, domainFilter)
       THEN EarlyResult("nonumbers", file)
       ELSE IF FilterCrashes(config, domainFilter)
       THEN EarlyResult("crashed", file)
       ELSE LET pfd == PhonesForDomain(config, providerConfig, name, domainFilter)
                fetched == FetchRemoteNumbers(name, file, providerConfig, outcome)
            IN IF fetched.result.kind = "throw"
               THEN PassResult("crashed", file, fetched.file, outcome, fetched.result,
                               pfd, {}, {}, {}, 0, fetched.writes, FALSE)
               ELSE RemovalResult(name, file, config, fetched, outcome, pfd,
                                  RemotePhoneNumbers(name, fetched.result), domainFilter)

\* syncProviderNumbers(providerName, providerConfig, fetchRemoteNumbers, domainFilter)
SyncProviderNumbers(name, file, providerConfig, domainFilter, outcome) ==
    LET config == GetConfig(file)
    IN IF ~HasPhoneNumbers(config, providerConfig, name, domainFilter)
       THEN EarlyResult("nonumbers", file)
       ELSE IF FilterCrashes(config, domainFilter)
       THEN EarlyResult("crashed", file)
       ELSE LET pfd == PhonesForDomain(config, providerConfig, name, domainFilter)
                fetched == FetchRemoteNumbers(name, file, providerConfig, outcome)
            IN IF fetched.result.kind = "throw"
               THEN PassResult("fetchfailed", file, fetched.file, outcome, fetched.result,
                               pfd, {}, {}, {}, 0, fetched.writes, FALSE)
               ELSE RemovalResult(name, file, config, fetched, outcome, pfd,
                                  RemotePhoneNumbers(name, fetched.result), domainFilter)

---------------------------------------------------------------------------
(* commands/sync.js: syncCommand *)

\* shouldSyncProvider, with both spellings accepted for 11Labs
ShouldSyncProvider(provider, name) ==
    \/ provider = NoArg
    \/ provider = Lower(name)
    \/ name = "11Labs" /\ provider = "elevenlabs"

\* a check that the provider section exists, not that it holds an API key
ConfiguredSectionOnly(config, name) == ConfigKeyOf(name) \in DOMAIN config

\* the provider section exists and has an API key
Configured(config, name) == config[ConfigKeyOf(name)].apiKey # ""

\* a pass that does not hand --domain on to syncProviderNumbers
ProviderPassAllDomains(name, file, config, cmd, alive, outcome) ==
    IF ~alive \/ ~ShouldSyncProvider(cmd.provider, name)
    THEN EarlyResult("notrun", file)
    ELSE IF ~Configured(config, name)
    THEN EarlyResult("skipped", file)
    ELSE SyncProviderNumbers(name, file, config[ConfigKeyOf(name)], NoArg, outcome)

\* the pass for one provider: not reached after a crash, not run for an
\* untargeted provider, skipped for an unconfigured one
ProviderPass(name, file, config, cmd, alive, outcome) ==
    IF ~alive \/ ~ShouldSyncProvider(cmd.provider, name)
    THEN EarlyResult("notrun", file)
    ELSE IF ~Configured(config, name)
    THEN EarlyResult("skipped", file)
    ELSE SyncProviderNumbers(name, file, config[ConfigKeyOf(name)], cmd.domain, outcome)

\* the pass sends the remote request
Fetches(name, file, config, cmd, alive) ==
    /\ alive
    /\ ShouldSyncProvider(cmd.provider, name)
    /\ Configured(config, name)
    /\ HasPhoneNumbers(GetConfig(file), config[ConfigKeyOf(name)], name, cmd.domain)
    /\ ~FilterCrashes(GetConfig(file), cmd.domain)

\* the answers the remote side can give to this pass; a repeated run sees
\* the remote state of the run before it
Answers(name, file, config, cmd, alive, fixed) ==
    IF ~Fetches(name, file, config, cmd, alive) THEN {NoOutcome}
    ELSE IF fixed[name] # NoOutcome THEN {fixed[name]}
    ELSE Outcomes(name)

Unfixed == [name \in PassSet |-> NoOutcome]

\* the report of a finished run
Report(cmd, rerun, p1, p2, p3) ==
    [cmd |-> cmd,
     rerun |-> rerun,
     pass |-> [name \in PassSet |->
                 CASE name = "VAPI" -> p1
                   [] name = "Retell" -> p2
                   [] name = "11Labs" -> p3],
     totalChanges |-> p1.removedCount + p2.removedCount + p3.removedCount,
     exit |-> IF \E p \in {p1, p2, p3} : p.status = "crashed"
              THEN "crashed" ELSE "complete",
     message |-> IF \E p \in {p1, p2, p3} : p.status = "crashed" THEN "none"
                 ELSE IF p1.removedCount + p2.removedCount + p3.removedCount > 0
                 THEN "removed" ELSE "insync"]

\* one run of `cx-vcc sync [--domain d] [--provider p]`: the three passes
\* in the order of syncCommand; an uncaught error ends the command
RunSync(cmd, fixed, rerun) ==
    \E config \in {GetConfig(store)} :
    \E o1 \in Answers("VAPI", store, config, cmd, TRUE, fixed) :
    \E p1 \in {ProviderPass("VAPI", store, config, cmd, TRUE, o1)} :
    \E a1 \in {p1.status # "crashed"} :
    \E o2 \in Answers("Retell", p1.after, config, cmd, a1, fixed) :
    \E p2 \in {ProviderPass("Retell", p1.after, config, cmd, a1, o2)} :
    \E a2 \in {a1 /\ p2.status # "crashed"} :
    \E o3 \in Answers("11Labs", p2.after, config, cmd, a2, fixed) :
    \E p3 \in {ProviderPass("11Labs", p2.after, config, cmd, a2, o3)} :
        /\ store' = p3.after
        /\ last' = <<Report(cmd, rerun, p1, p2, p3)>>

Sync ==
    /\ last = <<>>
    /\ \E d \in DomainArgs, p \in ProviderArgs :
           RunSync([provider |-> p, domain |-> d], Unfixed, FALSE)

\* the same command again, against the same remote state
SyncAgain ==
    /\ last # <<>>
    /\ ~last[1].rerun
    /\ RunSync(last[1].cmd, [name \in PassSet |-> last[1].pass[name].outcome], TRUE)

---------------------------------------------------------------------------
(* services/providerRegistry.js and the provider clients' constructors *)

DefaultVapiUrl == "https://api.vapi.ai"

DefaultRetellUrl == "https://api.retellai.com"

Unsupported == "unsupported"

\* aliasMap[providerName.toLowerCase()] || providerName.toLowerCase()
AliasMap(provider) == IF provider = "11labs" THEN "elevenlabs" ELSE provider

\* getProviderConfig: the configKey of the registry entry, or the error
GetProviderConfig(provider) ==
    IF AliasMap(provider) \in ConfigKeys THEN AliasMap(provider) ELSE Unsupported

\* the default value of the constructor's baseUrl parameter
DefaultUrl(configKey) ==
    CASE configKey = "vapi" -> DefaultVapiUrl
      [] configKey = "retell" -> DefaultRetellUrl
      [] configKey = "elevenlabs" -> DefaultElevenLabsUrl

\* this.baseUrl: the default applies to an undefined argument only
BaseUrl(configKey, apiUrl) ==
    IF apiUrl = Absent THEN DefaultUrl(configKey) ELSE apiUrl

\* new Service(apiKey, apiUrl): the document the constructor leaves
NewService(configKey, file, apiKey, apiUrl) ==
    CASE configKey = "vapi" -> file
      [] configKey = "retell" ->
            RetellUpdateConfig(file, apiKey, BaseUrl(configKey, apiUrl))
      [] configKey = "elevenlabs" ->
            ElevenLabsUpdateConfig(file, apiKey, BaseUrl(configKey, apiUrl))

\* the constructor calls saveConfig
ConstructorSaves(configKey) == configKey \in {"retell", "elevenlabs"}

---------------------------------------------------------------------------
(* commands/addnumber.js *)

\* what the provider answers to the attach-number request
CallAnswers == {"ok", "fail"}

\* the outcome of a client call: whether it returned, whether the request
\* was sent, and the document it leaves
CallResult(ok, called, file) == [ok |-> ok, called |-> called, file |-> file]

\* !domainConfig.inboundSipUri
NoSipUri(domainConfig) == domainConfig.inboundSipUri = EmptyString

\* VapiApiService.addByoPhoneNumber, after the read of
\* domainConfig.vapi.trunkCredentialId that throws for an undefined section
VapiAddByoPhoneNumber(file, domainConfig, answer) ==
    IF ~domainConfig.sections["vapi"].defined
    THEN CallResult(FALSE, FALSE, file)
    ELSE CallResult(answer = "ok", TRUE, file)

\* RetellApiService._updatePhoneNumberConfig: records the number in the
\* global retell map and saves
RetellUpdatePhoneNumberConfig(config, phoneNumber, apiKey, baseUrl) ==
    SaveConfig([config EXCEPT
        !.retell.phoneNumbers = [n \in (DOMAIN @) \cup {phoneNumber} |-> "rec"],
        !.retell.apiKey = apiKey,
        !.retell.apiUrl = baseUrl])

\* RetellApiService.importPhoneNumber
RetellImportPhoneNumber(file, phoneNumber, domainName, apiKey, baseUrl, answer) ==
    LET config == GetConfig(file)
    IN IF domainName \notin DOMAIN config.domains
       THEN CallResult(FALSE, FALSE, file)
       ELSE IF NoSipUri(config.domains[domainName])
       THEN CallResult(FALSE, FALSE, file)
       ELSE IF answer # "ok"
       THEN CallResult(FALSE, TRUE, file)
       ELSE CallResult(TRUE, TRUE,
                RetellUpdatePhoneNumberConfig(config, phoneNumber, apiKey, baseUrl))

\* ElevenLabsAgentProvider.addPhoneNumber(domain, number, domain), after the
\* inboundSipUri check of the command
ElevenLabsAddPhoneNumber(file, domainConfig, domainName, answer) ==
    LET config == GetConfig(file)
    IN IF NoSipUri(domainConfig)
       THEN CallResult(FALSE, FALSE, file)
       ELSE IF domainName \in DOMAIN config.domains /\ NoSipUri(config.domains[domainName])
       THEN CallResult(FALSE, FALSE, file)
       ELSE CallResult(answer = "ok", TRUE, file)

\* the provider branch of the try block
AttachNumber(provider, configKey, file, config, domainConfig, cmd, answer) ==
    CASE provider = "vapi" -> VapiAddByoPhoneNumber(file, domainConfig, answer)
      [] provider = "retell" ->
            RetellImportPhoneNumber(file, cmd.number, cmd.domain,
                config.retell.apiKey, BaseUrl("retell", config.retell.apiUrl), answer)
      [] provider \in {"11labs", "elevenlabs"} ->
            ElevenLabsAddPhoneNumber(file, domainConfig, cmd.domain, answer)

\* domainConfig[provider.toLowerCase()].phoneNumbers[number] = {id, sipUri}
RecordNumber(domainConfig, sectionKey, number) ==
    [domainConfig EXCEPT !.sections[sectionKey] =
        Section(TRUE, @.trunkCredentialId,
                [n \in (DOMAIN @.phoneNumbers) \cup {number} |-> "rec"])]

\* what a finished command leaves behind: the documents it saved, in order,
\* and whether a provider request was sent
CommandResult(op, cmd, exit, before, saves, called) ==
    [op |-> op, cmd |-> cmd, exit |-> exit, before |-> before,
     after |-> IF saves = <<>> THEN before ELSE saves[Len(saves)],
     saves |-> saves, called |-> called]

\* addNumberCommand(options)
AddNumberCommand(file, cmd, answer) ==
    LET config == GetConfig(file)
        configKey == GetProviderConfig(cmd.provider)
    IN IF cmd.domain \notin DOMAIN config.domains
       THEN CommandResult("addnumber", cmd, "nodomain", file, <<>>, FALSE)
       ELSE IF configKey = Unsupported
       THEN CommandResult("addnumber", cmd, "unsupported", file, <<>>, FALSE)
       ELSE LET domainConfig == config.domains[cmd.domain]
                built == NewService(configKey, file, config[configKey].apiKey,
                                    config[configKey].apiUrl)
                first == IF ConstructorSaves(configKey) THEN <<built>> ELSE <<>>
                call == AttachNumber(cmd.provider, configKey, built, config,
                                     domainConfig, cmd, answer)
                second == IF cmd.provider = "retell" /\ call.ok
                          THEN <<call.file>> ELSE <<>>
                final == SaveConfig([config EXCEPT !.domains[cmd.domain] =
                            RecordNumber(domainConfig, cmd.provider, cmd.number)])
            IN IF ~call.ok
               THEN CommandResult("addnumber", cmd, "failed", file,
                                  first \o second, call.called)
               ELSE CommandResult("addnumber", cmd, "ok", file,
                                  first \o second \o <<final>>, TRUE)

---------------------------------------------------------------------------
(* verifyApiKey of the three provider clients *)

\* what the provider answers to the verification request
Response(status) == [responded |-> TRUE, status |-> status]

NoResponse == [responded |-> FALSE, status |-> 0]

VerifyAnswers == {Response(200), Response(401), Response(403), Response(500), NoResponse}

Succeeded(answer) == answer.responded /\ answer.status = 200

\* VapiApiService.verifyApiKey: TRUE when it returns true, FALSE when it throws
VapiVerifyApiKey(answer) ==
    IF Succeeded(answer) THEN TRUE
    ELSE IF answer.responded /\ answer.status = 403 THEN FALSE
    ELSE TRUE

\* RetellApiService.verifyApiKey
RetellVerifyApiKey(answer) ==
    IF Succeeded(answer) THEN TRUE
    ELSE IF answer.responded /\ answer.status = 403 THEN FALSE
    ELSE IF answer.responded /\ answer.status # 403 THEN TRUE
    ELSE FALSE

\* ElevenLabsAgentProvider.verifyApiKey: 401 and, through _handleError, every
\* other error throw
ElevenLabsVerifyApiKey(answer) ==
    IF Succeeded(answer) THEN TRUE
    ELSE IF answer.responded /\ answer.status = 401 THEN FALSE
    ELSE FALSE

\* apiService.verifyApiKey() of the client behind a configKey
VerifyApiKey(configKey, answer) ==
    CASE configKey = "vapi" -> VapiVerifyApiKey(answer)
      [] configKey = "retell" -> RetellVerifyApiKey(answer)
      [] configKey = "elevenlabs" -> ElevenLabsVerifyApiKey(answer)

---------------------------------------------------------------------------
(* commands/service.js *)

NewKey == "newkey"

NewTrunkId == "trunk-2"

NotRequired == "Not required"

\* selectDomain that only looks the domain up
SelectDomainInStore(file, domain) ==
    IF domain \notin DOMAIN GetConfig(file).domains THEN "nodomain" ELSE "ok"

\* selectDomain with a specified domain: "ok", or the reason it exits
SelectDomain(file, domain) ==
    LET config == GetConfig(file)
    IN IF domain \notin DOMAIN config.domains THEN "nodomain"
       ELSE IF NoSipUri(config.domains[domain]) THEN "nosip"
       ELSE "ok"

\* the provider branch of setupSipTrunk: a create-trunk request is sent for
\* vapi; retell needs none; the elevenlabs client returns a made-up trunk
TrunkCall(provider, answer) ==
    CASE provider = "vapi" -> [ok |-> answer = "ok", called |-> TRUE, id |-> NewTrunkId]
      [] provider = "retell" -> [ok |-> TRUE, called |-> FALSE, id |-> NotRequired]
      [] provider \in {"11labs", "elevenlabs"} ->
            [ok |-> TRUE, called |-> TRUE, id |-> NewTrunkId]

\* domainConfig[configKey].trunkCredentialId = trunkResult.id, saved into a
\* fresh read of the document
StoreTrunk(file, domain, configKey, id) ==
    LET config == GetConfig(file)
        domainConfig == config.domains[domain]
    IN SaveConfig([config EXCEPT !.domains[domain] =
          [domainConfig EXCEPT !.sections[configKey] =
              Section(TRUE, id, @.phoneNumbers)]])

\* setupSipTrunk(apiService, name, domain, spinner, provider, configKey)
SetupSipTrunk(cmd, configKey, before, file, saves, verify2, trunkAnswer) ==
    LET selected == SelectDomain(file, cmd.domain)
        trunk == TrunkCall(cmd.provider, trunkAnswer)
    IN IF selected # "ok"
       THEN CommandResult("service", cmd, selected, before, saves, FALSE)
       ELSE IF ~VerifyApiKey(configKey, verify2)
       THEN CommandResult("service", cmd, "trunkfailed", before, saves, FALSE)
       ELSE IF ~trunk.ok
       THEN CommandResult("service", cmd, "trunkfailed", before, saves, trunk.called)
       ELSE CommandResult("service", cmd, "trunk", before,
                saves \o <<StoreTrunk(file, cmd.domain, configKey, trunk.id)>>,
                trunk.called)

\* configureServiceProvider(options, ApiService, configKey)
ConfigureServiceProvider(file, cmd, configKey, verify1, verify2, trunkAnswer) ==
    LET config == GetConfig(file)
        built == NewService(configKey, file, cmd.apikey, Absent)
        first == IF ConstructorSaves(configKey) THEN <<built>> ELSE <<>>
        keyed == SaveConfig([config EXCEPT ![configKey].apiKey = cmd.apikey,
                                           ![configKey].apiUrl = DefaultUrl(configKey)])
    IN IF ~VerifyApiKey(configKey, verify1)
       THEN CommandResult("service", cmd, "rejected", file, first, FALSE)
       ELSE IF cmd.name # NoArg /\ cmd.domain # NoArg
       THEN SetupSipTrunk(cmd, configKey, file, keyed, first \o <<keyed>>,
                          verify2, trunkAnswer)
       ELSE CommandResult("service", cmd, "ok", file, first \o <<keyed>>, FALSE)

\* serviceCommand(options)
ServiceCommand(file, cmd, verify1, verify2, trunkAnswer) ==
    IF cmd.apikey = NoArg
    THEN CommandResult("service", cmd, "nokey", file, <<>>, FALSE)
    ELSE IF cmd.provider \notin {"vapi", "retell", "11labs", "elevenlabs"}
    THEN CommandResult("service", cmd, "unsupported", file, <<>>, FALSE)
    ELSE ConfigureServiceProvider(file, cmd, AliasMap(cmd.provider),
                                  verify1, verify2, trunkAnswer)

---------------------------------------------------------------------------
(* commands/configure.js *)

NewDomainKey == "cxkey-2"

\* one entry of domainDetails.aliases
Alias(type, alias) == [type |-> type, alias |-> alias]

\* what getDomainDetails returns: the domain's own alias, and its alias
\* list when it is an array
Details(alias, isArray, aliases) ==
    [ok |-> TRUE, alias |-> alias, isArray |-> isArray, aliases |-> aliases]

DetailsFailure == [ok |-> FALSE, alias |-> Absent, isArray |-> FALSE, aliases |-> <<>>]

\* the answers of the Cloudonix API to getDomainDetails
DomainAnswers ==
    {DetailsFailure,
     Details("main", TRUE, <<Alias("manual", "office"), Alias("auto", "auto-1")>>),
     Details(Absent, TRUE, <<Alias("auto", "auto-1")>>),
     Details("main", TRUE, <<Alias("manual", "office")>>),
     Details("main", TRUE, <<Alias("auto", "")>>),
     Details(Absent, TRUE, <<>>),
     Details("main", FALSE, <<>>)}

\* domainDetails.aliases.find((alias) => alias.type === 'auto'): the first
\* such entry, or none
FindAuto(aliases) ==
    LET hits == {i \in 1..Len(aliases) : aliases[i].type = "auto"}
    IN IF hits = {} THEN <<>>
       ELSE <<aliases[CHOOSE i \in hits : \A j \in hits : i <= j]>>

\* extractDomainInfo(domainDetails, domain)
ExtractDomainInfo(domainDetails, domain) ==
    LET autoAliasObj == IF domainDetails.isArray THEN FindAuto(domainDetails.aliases)
                        ELSE <<>>
    IN IF autoAliasObj # <<>> /\ autoAliasObj[1].alias # ""
       THEN [autoAlias |-> autoAliasObj[1].alias,
             inboundSipUri |-> SipUriOf(autoAliasObj[1].alias)]
       ELSE [autoAlias |-> domain, inboundSipUri |-> EmptyString]

\* saveDomainConfig(domainName, domainConfig): the record replaces whatever
\* the document held for the domain
SaveDomainConfig(file, domainName, domainConfig) ==
    LET config == GetConfig(file)
    IN SaveConfig([config EXCEPT !.domains =
          [d \in DOMAIN config.domains \cup {domainName} |->
              IF d = domainName THEN domainConfig ELSE config.domains[d]]])

\* configureCommand(options)
ConfigureCommand(file, cmd, answer) ==
    IF cmd.apikey = NoArg
    THEN CommandResult("configure", cmd, "nokey", file, <<>>, FALSE)
    ELSE IF ~answer.ok
    THEN CommandResult("configure", cmd, "failed", file, <<>>, TRUE)
    ELSE LET info == ExtractDomainInfo(answer, cmd.domain)
             domainConfig ==
                DomainOf(cmd.apikey,
                         IF answer.alias # Absent THEN answer.alias ELSE info.autoAlias,
                         info.autoAlias, info.inboundSipUri,
                         [k \in SectionKeys |-> Section(FALSE, Absent, EmptyMap)])
         IN CommandResult("configure", cmd, "ok", file,
                          <<SaveDomainConfig(file, cmd.domain, domainConfig)>>, TRUE)

---------------------------------------------------------------------------
(* commands/delete.js *)

\* deleteDomainConfig(domainName): the document read by getConfig, without
\* the domain, is saved
DeleteDomainConfig(file, domainName) ==
    LET config == GetConfig(file)
    IN SaveConfig([config EXCEPT !.domains =
          [d \in DOMAIN config.domains \ {domainName} |-> config.domains[d]]])

\* deleteCommand(options); cmd.confirm is the answer to the prompt
DeleteCommand(file, cmd) ==
    IF cmd.domain \notin DOMAIN GetConfig(file).domains
    THEN CommandResult("delete", cmd, "nodomain", file, <<>>, FALSE)
    ELSE IF ~cmd.confirm
    THEN CommandResult("delete", cmd, "cancelled", file, <<>>, FALSE)
    ELSE CommandResult("delete", cmd, "deleted", file,
                       <<DeleteDomainConfig(file, cmd.domain)>>, FALSE)

---------------------------------------------------------------------------
(* commands/display.js: the documents it leaves and the 11Labs remote list *)

\* the remote numbers displayProviderConfig shows for 11Labs: the entries
\* getPhoneNumbers returned, or, had it not returned an array, records built
\* from providerConfig.phoneNumbers
ElevenLabsRemoteNumbers(providerConfig, phoneNumbersData) ==
    IF phoneNumbersData.kind = "array"
    THEN phoneNumbersData.items
    ELSE {Item(n, "sip_trunk", "local_fallback") : n \in DOMAIN providerConfig.phoneNumbers}

\* the report of a display command: what it left in the store and the
\* remote 11Labs records it showed
DisplayResult(cmd, outcome, before, saves, records) ==
    [op |-> "display", cmd |-> cmd, exit |-> "ok", before |-> before,
     after |-> IF saves = <<>> THEN before ELSE saves[Len(saves)],
     saves |-> saves, called |-> outcome # NoOutcome,
     outcome |-> outcome, records |-> records, error |-> FALSE]

\* displayCommand(options): with --domain only the domain record is shown;
\* otherwise the three provider sections, and with --remote the remote
\* lists of the providers that have a key.  The VAPI client writes nothing,
\* the Retell and 11Labs clients are constructed for their lists.
DisplayCommand(file, cmd, outcome) ==
    LET config == GetConfig(file)
        retell == cmd.remote /\ config.retell.apiKey # ""
        eleven == cmd.remote /\ config.elevenlabs.apiKey # ""
        afterRetell == IF retell
                       THEN RetellUpdateConfig(file, config.retell.apiKey, config.retell.apiUrl)
                       ELSE file
        fetched == ElevenLabsFetch(afterRetell, config.elevenlabs.apiKey,
                                   config.elevenlabs.apiUrl, outcome)
    IN IF cmd.domain # NoArg
       THEN DisplayResult(cmd, NoOutcome, file, <<>>, {})
       ELSE DisplayResult(cmd, IF eleven THEN outcome ELSE NoOutcome, file,
               (IF retell THEN <<afterRetell>> ELSE <<>>)
                  \o (IF eleven THEN <<fetched.file>> ELSE <<>>),
               IF eleven THEN ElevenLabsRemoteNumbers(config.elevenlabs, fetched.result)
               ELSE {})

---------------------------------------------------------------------------
(* Initial documents *)

\* a place a number can be recorded in: a provider's global map, or the
\* section of a domain under one provider key
Slots ==
    {<<"global", k>> : k \in ConfigKeys} \cup (Domains \X SectionKeys)

Entries == Slots \X Numbers

\* a provider section without an API key
KeyHoles == {<<<<"apiKey", k>>, "">> : k \in ConfigKeys}

RECURSIVE UpTo(_, _)
\* the subsets of S with at most k elements
UpTo(S, k) ==
    IF k = 0 THEN {{}}
    ELSE LET smaller == UpTo(S, k - 1)
         IN smaller \cup {T \cup {x} : T \in smaller, x \in S}

NumbersAt(E, slot) == {n \in Numbers : <<slot, n>> \in E}

KeysOf(E) == [k \in ConfigKeys |-> IF <<<<"apiKey", k>>, "">> \in E THEN "" ELSE "key"]

\* the document that records exactly the entries E
StoreOf(E, keys, url) ==
    [domains |-> [d \in Domains |->
                    DomainRecord(d, [k \in SectionKeys |-> MapOf(NumbersAt(E, <<d, k>>))])],
     vapi |-> [apiKey |-> keys["vapi"], apiUrl |-> "",
               phoneNumbers |-> MapOf(NumbersAt(E, <<"global", "vapi">>))],
     retell |-> [apiKey |-> keys["retell"], apiUrl |-> "",
                 phoneNumbers |-> MapOf(NumbersAt(E, <<"global", "retell">>))],
     elevenlabs |-> [apiKey |-> keys["elevenlabs"], apiUrl |-> url,
                     phoneNumbers |-> MapOf(NumbersAt(E, <<"global", "elevenlabs">>))]]

Init ==
    /\ \E E \in UpTo(Entries \cup KeyHoles, MaxEntries) :
          store = StoreOf(E, KeysOf(E), Absent)
    /\ last = <<>>

\* the report of the finished run is cleared
Reset ==
    /\ last # <<>>
    /\ last' = <<>>
    /\ UNCHANGED store

Next == Sync \/ SyncAgain \/ Reset

Spec == Init /\ [][Next]_vars

---------------------------------------------------------------------------
(* One command on a document: addnumber *)

\* the provider names given to addnumber and service
CmdProviderArgs == {"vapi", "retell", "elevenlabs", "11labs", UnknownProvider}

CmdDomainArgs == Domains \cup {AbsentDomain}

\* what a document can differ in from a freshly configured one, besides the
\* numbers it records: a domain is missing, has an empty inboundSipUri, has
\* a vapi section without or with a trunkCredentialId
Shapes ==
    {<<<<shape, d>>, "">> : shape \in {"nodomain", "nosip", "section", "trunk"},
                            d \in Domains}

\* the number documents hold before the command
FirstNumber == "+12025551234"

\* the elevenlabs section holds the apiUrl its client's constructor writes
StoredUrl == <<<<"apiUrl", "elevenlabs">>, "">>

CmdFeatures == Shapes \cup KeyHoles \cup {StoredUrl} \cup (Slots \X {FirstNumber})

Has(E, shape, d) == <<<<shape, d>>, "">> \in E

TrunkId == "trunk-1"

\* the domain record with the features E
DomainWith(E, d) ==
    DomainOf("cxkey", d, d,
             IF Has(E, "nosip", d) THEN EmptyString ELSE SipUriOf(d),
             [k \in SectionKeys |->
                LET numbers == NumbersAt(E, <<d, k>>)
                    trunk == k = "vapi" /\ Has(E, "trunk", d)
                IN Section(numbers # {} \/ trunk \/ (k = "vapi" /\ Has(E, "section", d)),
                           IF trunk THEN TrunkId ELSE Absent,
                           MapOf(numbers))])

\* the document with the features E
DocumentWith(E) ==
    [StoreOf(E, KeysOf(E), IF StoredUrl \in E THEN DefaultElevenLabsUrl ELSE Absent) EXCEPT
        !.domains = [d \in {x \in Domains : ~Has(E, "nodomain", x)} |-> DomainWith(E, d)]]

InitCmd ==
    /\ \E E \in UpTo(CmdFeatures, MaxEntries) : store = DocumentWith(E)
    /\ last = <<>>

\* `cx-vcc addnumber --domain d --provider p --number n`
AddNumberStep ==
    \E d \in CmdDomainArgs, p \in CmdProviderArgs, n \in Numbers, answer \in CallAnswers :
    \E r \in {AddNumberCommand(store, [provider |-> p, domain |-> d, number |-> n], answer)} :
        /\ store' = r.after
        /\ last' = <<r>>

AddNumber == last = <<>> /\ AddNumberStep

\* `cx-vcc service --provider p --apikey k [--name t --domain d]`
ServiceStep ==
    \E p \in CmdProviderArgs, k \in {NoArg, NewKey}, t \in {NoArg, "trunk"},
       d \in {NoArg} \cup CmdDomainArgs,
       verify1 \in VerifyAnswers :
    \E verify2 \in (IF t # NoArg /\ d # NoArg THEN VerifyAnswers ELSE {Response(200)}),
       trunkAnswer \in (IF t # NoArg /\ d # NoArg THEN CallAnswers ELSE {"ok"}) :
    \E r \in {ServiceCommand(store, [provider |-> p, apikey |-> k, name |-> t, domain |-> d],
                             verify1, verify2, trunkAnswer)} :
        /\ store' = r.after
        /\ last' = <<r>>

Service == last = <<>> /\ ServiceStep

\* `cx-vcc configure --domain d [--apikey k]`
ConfigureStep ==
    \E d \in Domains, k \in {NoArg, NewDomainKey} :
    \E answer \in (IF k = NoArg THEN {DetailsFailure} ELSE DomainAnswers) :
    \E r \in {ConfigureCommand(store, [domain |-> d, apikey |-> k], answer)} :
        /\ store' = r.after
        /\ last' = <<r>>

Configure == last = <<>> /\ ConfigureStep

\* `cx-vcc delete --domain d`, the prompt answered yes or no
DeleteStep ==
    \E d \in CmdDomainArgs, confirm \in BOOLEAN :
    \E r \in {DeleteCommand(store, [domain |-> d, confirm |-> confirm])} :
        /\ store' = r.after
        /\ last' = <<r>>

Delete == last = <<>> /\ DeleteStep

\* `cx-vcc display [--domain d] [--remote]`
DisplayStep ==
    \E d \in {NoArg} \cup CmdDomainArgs, remote \in BOOLEAN :
    \E outcome \in (IF d = NoArg /\ remote /\ GetConfig(store).elevenlabs.apiKey # ""
                     THEN Outcomes("11Labs") ELSE {NoOutcome}) :
    \E r \in {DisplayCommand(store, [domain |-> d, remote |-> remote], outcome)} :
        /\ store' = r.after
        /\ last' = <<r>>

Display == last = <<>> /\ DisplayStep

NextCmd == AddNumber \/ Service \/ Configure \/ Delete \/ Display

SpecCmd == InitCmd /\ [][NextCmd]_vars

---------------------------------------------------------------------------
(* Sequences of addnumber and sync on a configured installation *)

\* the entries a document records
EntriesOf(file) ==
    {e \in Entries :
        IF e[1][1] = "global"
        THEN e[2] \in DOMAIN file[e[1][2]].phoneNumbers
        ELSE /\ e[1][1] \in DOMAIN file.domains
             /\ e[2] \in DOMAIN file.domains[e[1][1]].sections[e[1][2]].phoneNumbers}

\* every domain configured with a trunk, every provider with a key, and no
\* number recorded yet
InitOps ==
    /\ store = DocumentWith({<<<<"trunk", d>>, "">> : d \in Domains})
    /\ last = <<>>

\* addnumber while the document has room for another entry
OpsAddNumber ==
    /\ Cardinality(EntriesOf(store)) < MaxEntries
    /\ AddNumber

NextOps == OpsAddNumber \/ Sync \/ Reset

SpecOps == InitOps /\ [][NextOps]_vars

---------------------------------------------------------------------------
(* Reading the report and the documents *)

Ran == last # <<>>

\* the numbers the document records for the provider in its global map
GlobalNumbers(file, name) == DOMAIN file[ConfigKeyOf(name)].phoneNumbers

\* the domains whose section for the provider records the number
DomainsOf(file, name, n) ==
    {d \in DOMAIN file.domains : n \in DomainNumbers(file, d, name)}

\* the numbers the provider's list endpoint really returned in the pass
Listed(pass) == {i.number : i \in pass.outcome.items}

\* the provider-owned part of the document is the same in both
SameNumbers(f, g, name) ==
    /\ GlobalNumbers(f, name) = GlobalNumbers(g, name)
    /\ DOMAIN f.domains = DOMAIN g.domains
    /\ \A d \in DOMAIN f.domains, k \in ProviderKeys(name) :
          f.domains[d].sections[k].phoneNumbers = g.domains[d].sections[k].phoneNumbers

---------------------------------------------------------------------------
(* Claims *)

\* C1: for every provider, when the remote list request fails during sync,
\* the pass deletes no number and the persisted document after the pass is
\* the persisted document before it.
C1_FailedFetchChangesNothing ==
    Ran => \A name \in PassSet :
        LET p == last[1].pass[name]
        IN p.outcome.kind = "throw" => (p.deleted = {} /\ p.after = p.before)

\* C2: in an unfiltered run, a number recorded only in the provider's global
\* map and missing from the returned list is deleted from the global map,
\* counted as removed, and the pruned document is persisted.
C2_GlobalOnlyRemoved ==
    Ran => \A name \in PassSet, n \in Numbers :
        LET p == last[1].pass[name]
        IN (/\ last[1].cmd.domain = NoArg
            /\ p.outcome.kind = "array"
            /\ n \notin Listed(p)
            /\ n \in GlobalNumbers(p.before, name)
            /\ DomainsOf(p.before, name, n) = {})
           => (/\ n \notin GlobalNumbers(p.after, name)
               /\ p.removedCount >= 1
               /\ p.saved)

\* C3: when the list request succeeds with something that is not an array
\* of numbers, the pass removes nothing: every number the provider had
\* recorded is still recorded afterwards.
C3_UnexpectedSchemaRemovesNothing ==
    Ran => \A name \in PassSet :
        LET p == last[1].pass[name]
        IN p.outcome.kind = "nonarray" => SameNumbers(p.before, p.after, name)

\* C4: a number recorded only under domain D's section of a provider is
\* still recorded there after a run with --domain E, for every E other
\* than D and whatever the remote lists return.
C4_ScopeIsolation ==
    Ran => \A name \in PassSet, n \in Numbers, D \in Domains :
        LET start == last[1].pass["VAPI"].before
        IN (/\ last[1].cmd.domain \notin {NoArg, D}
            /\ DomainsOf(start, name, n) = {D}
            /\ n \notin GlobalNumbers(start, name))
           => \A k \in ProviderKeys(name) :
                 n \in DOMAIN start.domains[D].sections[k].phoneNumbers
                    => n \in DOMAIN store.domains[D].sections[k].phoneNumbers

\* C4 witness: a run filtered to E removed a number of the provider while
\* another number, missing remotely too, was recorded only under D
C4_Witness ==
    Ran /\ \E name \in PassSet, n \in Numbers, D \in Domains :
        LET start == last[1].pass["VAPI"].before
            p == last[1].pass[name]
        IN /\ last[1].cmd.domain \in Domains \ {D}
           /\ DomainsOf(start, name, n) = {D}
           /\ n \notin GlobalNumbers(start, name)
           /\ p.status = "removed" /\ p.removedCount > 0
           /\ n \notin p.remotePhoneNumbers

\* C5: a number recorded in the provider's global map and in exactly one
\* domain's map, and missing from the returned list, is gone from both
\* after one pass, unfiltered or filtered to that domain.
C5_DualScopeRepair ==
    Ran => \A name \in PassSet, n \in Numbers, d \in Domains :
        LET p == last[1].pass[name]
        IN (/\ last[1].cmd.domain \in {NoArg, d}
            /\ p.outcome.kind = "array"
            /\ n \notin Listed(p)
            /\ n \in GlobalNumbers(p.before, name)
            /\ DomainsOf(p.before, name, n) = {d})
           => (/\ n \notin GlobalNumbers(p.after, name)
               /\ n \notin DomainNumbers(p.after, d, name))

\* C5 witness: such a doubly recorded number was removed by a filtered pass
C5_Witness ==
    Ran /\ \E name \in PassSet, n \in Numbers, d \in Domains :
        LET p == last[1].pass[name]
        IN /\ last[1].cmd.domain = d
           /\ p.outcome.kind = "array"
           /\ n \notin Listed(p)
           /\ n \in GlobalNumbers(p.before, name)
           /\ DomainsOf(p.before, name, n) = {d}
           /\ p.status = "removed" /\ p.saved

\* C6: running the same sync again, with the remote lists unchanged, removes
\* nothing and leaves the document of the first run as it is.
C6_SecondRunRemovesNothing ==
    (Ran /\ last[1].rerun) =>
        /\ last[1].totalChanges = 0
        /\ store = last[1].pass["VAPI"].before

PassIndex(name) == CHOOSE i \in 1..Len(PassNames) : PassNames[i] = name

\* C8: when the list request of one provider fails, every other provider
\* that is targeted and configured still gets its pass, and the numbers that
\* pass removed from domain sections are gone from the persisted document.
C8_FailureIsLocal ==
    Ran => \A f \in PassSet, q \in PassSet :
        LET r == last[1]
            start == r.pass["VAPI"].before
        IN (/\ f # q
            /\ r.pass[f].outcome.kind = "throw"
            /\ ShouldSyncProvider(r.cmd.provider, q)
            /\ Configured(GetConfig(start), q))
           => (/\ r.pass[q].status # "notrun"
               /\ r.pass[q].removedCount > 0 => r.pass[q].saved
               /\ \A n \in r.pass[q].acted :
                     r.pass[q].phonesForDomain[n] \in DOMAIN store.domains
                        => n \notin DomainNumbers(store, r.pass[q].phonesForDomain[n], q))

\* C8 witness: a pass removed and persisted numbers after the request of an
\* earlier provider had failed
C8_Witness ==
    Ran /\ \E f \in PassSet, q \in PassSet :
        /\ PassIndex(f) < PassIndex(q)
        /\ last[1].pass[f].status = "fetchfailed"
        /\ last[1].pass[q].status = "removed"
        /\ last[1].pass[q].saved

\* C9: a number of the provider that is in the remote list of the pass is
\* recorded after the pass wherever it was recorded before it.
C9_RemoteNumbersKept ==
    Ran => \A name \in PassSet :
        LET p == last[1].pass[name]
        IN \A n \in p.remotePhoneNumbers :
              /\ n \in GlobalNumbers(p.before, name) => n \in GlobalNumbers(p.after, name)
              /\ \A d \in DOMAIN p.before.domains, k \in ProviderKeys(name) :
                    n \in DOMAIN p.before.domains[d].sections[k].phoneNumbers
                       => n \in DOMAIN p.after.domains[d].sections[k].phoneNumbers

\* C10: the count a pass reports is the number of distinct numbers it
\* deleted from the configuration, and the configuration is persisted
\* exactly when the pass deleted something.
C10_CountIsDeletions ==
    Ran => \A name \in PassSet :
        LET p == last[1].pass[name]
        IN /\ p.removedCount = Cardinality(p.deleted)
           /\ p.saved <=> p.deleted # {}

\* C11: a provider-scoped command given `11labs` and the same command given
\* `elevenlabs` leave the same persisted document, for addnumber, service
\* and sync, from every document and for every answer of the provider.
C11_AliasEquivalence ==
    /\ \A d \in CmdDomainArgs, n \in Numbers, answer \in CallAnswers :
          AddNumberCommand(store, [provider |-> "11labs", domain |-> d, number |-> n], answer).after
          = AddNumberCommand(store, [provider |-> "elevenlabs", domain |-> d, number |-> n], answer).after
    /\ \A t \in {NoArg, "trunk"}, d \in {NoArg} \cup CmdDomainArgs,
          verify1 \in VerifyAnswers, verify2 \in VerifyAnswers, trunkAnswer \in CallAnswers :
          ServiceCommand(store, [provider |-> "11labs", apikey |-> NewKey, name |-> t, domain |-> d],
                         verify1, verify2, trunkAnswer).after
          = ServiceCommand(store, [provider |-> "elevenlabs", apikey |-> NewKey, name |-> t, domain |-> d],
                           verify1, verify2, trunkAnswer).after
    /\ \A d \in {NoArg} \cup CmdDomainArgs, outcome \in Outcomes("11Labs") :
          ProviderPass("11Labs", store, GetConfig(store),
                       [provider |-> "11labs", domain |-> d], TRUE, outcome).after
          = ProviderPass("11Labs", store, GetConfig(store),
                         [provider |-> "elevenlabs", domain |-> d], TRUE, outcome).after

C13_OneScopePerProvider ==
    \A name \in PassSet, n \in Numbers :
        (IF n \in GlobalNumbers(store, name) THEN 1 ELSE 0)
            + Cardinality(DomainsOf(store, name, n)) <= 1

\* the provider pass that reads what a command for this provider wrote
PassOf(provider) == CHOOSE name \in PassSet : ShouldSyncProvider(provider, name)

\* the last command was an addnumber that succeeded
AddedNumber == Ran /\ last[1].op = "addnumber" /\ last[1].exit = "ok"

\* C14: after a successful addnumber the persisted document records the
\* number under the domain's section for the provider and not in the
\* provider's global phone-number map, for VAPI, Retell and ElevenLabs.
C14_RecordedUnderDomainOnly ==
    AddedNumber =>
        LET cmd == last[1].cmd
            name == PassOf(cmd.provider)
        IN /\ cmd.number \in DomainNumbers(store, cmd.domain, name)
           /\ cmd.number \notin GlobalNumbers(store, name)

\* the domain is ready for addnumber: it is in the document, has a non-empty
\* inboundSipUri and, for vapi, a trunkCredentialId
ReadyFor(file, cmd) ==
    /\ cmd.domain \in DOMAIN file.domains
    /\ ~NoSipUri(file.domains[cmd.domain])
    /\ cmd.provider = "vapi"
          => file.domains[cmd.domain].sections["vapi"].trunkCredentialId # Absent

\* C15: addnumber calls the provider and records the number only if the
\* domain has a non-empty inboundSipUri and, for VAPI, a trunkCredentialId;
\* otherwise it fails without calling the provider and leaves the persisted
\* document as it was.
C15_RequiresSipUriAndTrunk ==
    (/\ Ran
     /\ last[1].op = "addnumber"
     /\ GetProviderConfig(last[1].cmd.provider) # Unsupported
     /\ ~ReadyFor(last[1].before, last[1].cmd))
        => /\ last[1].exit # "ok"
           /\ ~last[1].called
           /\ store = last[1].before

\* C16: after a successful configure of a domain, the stored inboundSipUri
\* is the stored autoAlias followed by `.sip.cloudonix.net`, both when an
\* alias of type `auto` exists and when autoAlias falls back to the domain
\* name.
C16_SipUriFromAutoAlias ==
    (Ran /\ last[1].op = "configure" /\ last[1].exit = "ok")
        => LET domainConfig == store.domains[last[1].cmd.domain]
           IN domainConfig.inboundSipUri = SipUriOf(domainConfig.autoAlias)

\* the domain is in the document and has a non-empty inboundSipUri
HasSipUri(file, d) == d \in DOMAIN file.domains /\ ~NoSipUri(file.domains[d])

\* the command left a trunkCredentialId in the section that was not there
\* before it
TrunkStored(r, d, k) ==
    LET new == r.after.domains[d].sections[k].trunkCredentialId
    IN /\ new # Absent
       /\ d \in DOMAIN r.before.domains
             => r.before.domains[d].sections[k].trunkCredentialId # new

\* C17: a trunkCredentialId is stored under a domain's provider section, and
\* a create-trunk call is issued for the domain, only if the domain is in
\* the store with a non-empty inboundSipUri when the command gets there.
C17_TrunkNeedsSipUri ==
    Ran => LET r == last[1]
           IN /\ \A d \in DOMAIN r.after.domains, k \in SectionKeys :
                    TrunkStored(r, d, k) => HasSipUri(r.before, d)
              /\ (r.op = "service" /\ (r.called \/ r.exit = "trunk"))
                    => HasSipUri(r.before, r.cmd.domain)

\* C17 witness: service created a VAPI trunk for a domain and stored its id
C17_Witness ==
    /\ Ran
    /\ last[1].op = "service" /\ last[1].exit = "trunk" /\ last[1].called
    /\ last[1].cmd.provider = "vapi"
    /\ store.domains[last[1].cmd.domain].sections["vapi"].trunkCredentialId = NewTrunkId
    /\ HasSipUri(last[1].before, last[1].cmd.domain)

\* C18: when verifyApiKey rejects the key given to the service command, the
\* persisted document is the one from before the command, the provider's
\* apiKey and apiUrl included, for VAPI, Retell and ElevenLabs.
C18_RejectedKeyNotStored ==
    (Ran /\ last[1].op = "service" /\ last[1].exit = "rejected")
        => /\ store = last[1].before
           /\ last[1].saves = <<>>

\* the provider answered the verification request with HTTP 401 or 403
Unauthorized(answer) == answer.responded /\ answer.status \in {401, 403}

\* C19: for each provider client, verifyApiKey fails when the provider
\* answers HTTP 401 or 403 and reports the key as valid for every other
\* error outcome (another HTTP status, or no response at all); a service
\* command without a trunk is rejected exactly in the first case.
C19_OnlyAuthErrorsReject ==
    \A provider \in {"vapi", "retell", "elevenlabs"}, answer \in VerifyAnswers :
        /\ VerifyApiKey(provider, answer) = ~Unauthorized(answer)
        /\ ServiceCommand(store, [provider |-> provider, apikey |-> NewKey,
                                  name |-> NoArg, domain |-> NoArg],
                          answer, answer, "ok").exit
             = IF Unauthorized(answer) THEN "rejected" ELSE "ok"

\* C20: sync given a --provider value that is not vapi, retell, elevenlabs
\* or 11labs ends in an unsupported-provider failure: it reports neither
\* that the sync completed nor that the configuration is in sync.
C20_UnknownProviderFails ==
    (Ran /\ last[1].cmd.provider = UnknownProvider)
        => /\ last[1].exit \notin {"complete"}
           /\ last[1].message \notin {"removed", "insync"}

\* the document the sync run started from
StartOf(r) == r.pass["VAPI"].before

\* C21: sync with --domain naming a domain that is absent from the store
\* ends in a failure instead of a completion message, and removes nothing,
\* whether or not the provider's global map holds numbers.
C21_AbsentDomainFails ==
    (Ran /\ last[1].cmd.domain # NoArg
         /\ last[1].cmd.domain \notin DOMAIN StartOf(last[1]).domains)
        => /\ last[1].exit # "complete"
           /\ last[1].message \notin {"removed", "insync"}
           /\ last[1].totalChanges = 0
           /\ \A name \in PassSet : SameNumbers(StartOf(last[1]), store, name)

\* C22: delete removes exactly the named domain record and only after the
\* user confirms: with the domain not in the store or the confirmation
\* declined the persisted document is unchanged; after a confirmed delete
\* every other domain record and every provider global section is
\* unchanged.
C22_DeleteRemovesOnlyTheDomain ==
    (Ran /\ last[1].op = "delete")
        => LET r == last[1]
               d == r.cmd.domain
           IN IF d \notin DOMAIN r.before.domains \/ ~r.cmd.confirm
              THEN store = r.before /\ r.saves = <<>>
              ELSE /\ DOMAIN store.domains = DOMAIN r.before.domains \ {d}
                   /\ \A e \in DOMAIN store.domains : store.domains[e] = r.before.domains[e]
                   /\ \A k \in ConfigKeys : store[k] = r.before[k]

C24_OneWritePerPass ==
    Ran => \A name \in PassSet :
        LET p == last[1].pass[name]
        IN /\ p.writes <= 1
           /\ p.writes = 1 => (p.saved /\ p.deleted # {})
           /\ ~p.saved => p.after = p.before

\* the numbers of a listed array that carry the provider tag
Tagged(pass, tag) == {i.number : i \in {j \in pass.outcome.items : j.provider = tag}}

\* C25: for VAPI only the remote entries tagged `byo-phone-number` count as
\* remote numbers: a local VAPI number whose only remote entry carries
\* another tag is treated as absent remotely, so the pass lists it for
\* removal and, unless a domain filter excludes it, acts on it.
C25_OnlyByoCounts ==
    Ran => LET p == last[1].pass["VAPI"]
           IN p.outcome.kind = "array"
                 => /\ p.remotePhoneNumbers = Tagged(p, "byo-phone-number")
                    /\ \A n \in DOMAIN p.phonesForDomain :
                          (n \in Listed(p) /\ n \notin Tagged(p, "byo-phone-number"))
                             => /\ p.status = "removed"
                                /\ (last[1].cmd.domain \in {NoArg, p.phonesForDomain[n]})
                                       => (n \in p.acted /\ n \in p.deleted)

\* C25 witness: a VAPI number recorded under a domain and listed remotely
\* with the tag `vapi` was deleted by the pass
C25_Witness ==
    Ran /\ \E n \in Numbers :
        LET p == last[1].pass["VAPI"]
        IN /\ n \in Tagged(p, "vapi")
           /\ n \in DOMAIN p.phonesForDomain
           /\ p.phonesForDomain[n] \in Domains
           /\ n \in p.deleted
           /\ p.saved

\* the list request failed or gave no usable entry
NothingUsable(outcome) ==
    outcome.kind \in {"throw", "nonarray"} \/ (outcome.kind = "array" /\ outcome.items = {})

\* C26: on the display path for ElevenLabs, when the remote list request
\* fails or yields no usable entry, the records shown are exactly one for
\* each number of the locally stored elevenlabs phone-number map, each
\* marked as locally sourced, and no error is raised.
C26_DisplayFallsBackToLocal ==
    (Ran /\ last[1].op = "display" /\ NothingUsable(last[1].outcome))
        => LET r == last[1]
               local == DOMAIN r.before.elevenlabs.phoneNumbers
           IN /\ {i.number : i \in r.records} = local
              /\ Cardinality(r.records) = Cardinality(local)
              /\ \A i \in r.records : i.source # "api"
              /\ ~r.error

\* C27: configure with an API key on a domain that is already in the store
\* updates the domain's Cloudonix fields and leaves the domain's provider
\* sections, each trunkCredentialId and phoneNumbers map, unchanged.
C27_ReconfigureKeepsSections ==
    (/\ Ran
     /\ last[1].op = "configure"
     /\ last[1].exit = "ok"
     /\ last[1].cmd.domain \in DOMAIN last[1].before.domains)
        => LET old == last[1].before.domains[last[1].cmd.domain]
               new == store.domains[last[1].cmd.domain]
           IN /\ new.apiKey = last[1].cmd.apikey
              /\ new.tenant = "self"
              /\ \A k \in SectionKeys : new.sections[k] = old.sections[k]

\* C28: store round trip: getConfig returns the configuration that was
\* written with saveConfig, so saveConfig(getConfig()) leaves the persisted
\* document unchanged; each provider's global phoneNumbers map and apiUrl
\* survive a read followed by a write, for vapi, retell and elevenlabs.
C28_RoundTrip ==
    /\ GetConfig(SaveConfig(store)) = store
    /\ SaveConfig(GetConfig(store)) = store
    /\ \A k \in ConfigKeys :
          /\ SaveConfig(GetConfig(store))[k].phoneNumbers = store[k].phoneNumbers
          /\ SaveConfig(GetConfig(store))[k].apiUrl = store[k].apiUrl

\* the document the i-th write of a command replaced
Replaced(r, i) == IF i = 1 THEN r.before ELSE r.saves[i - 1]

\* what the i-th write of a command changed in the provider sections is
\* still there after its j-th write
Carries(r, i, j) ==
    \A k \in ConfigKeys :
        /\ (DOMAIN r.saves[i][k].phoneNumbers) \ (DOMAIN Replaced(r, i)[k].phoneNumbers)
              \subseteq DOMAIN r.saves[j][k].phoneNumbers
        /\ r.saves[i][k].apiKey # Replaced(r, i)[k].apiKey
              => r.saves[j][k].apiKey = r.saves[i][k].apiKey
        /\ r.saves[i][k].apiUrl # Replaced(r, i)[k].apiUrl
              => r.saves[j][k].apiUrl = r.saves[i][k].apiUrl

\* C29: no lost update within one command: every write of the document
\* contains the changes persisted earlier in the same command, by the
\* command or by the provider client it called; the final write of
\* addnumber for Retell keeps what importPhoneNumber persisted.
C29_NoLostUpdate ==
    Ran => \A i \in 1..Len(last[1].saves), j \in 1..Len(last[1].saves) :
              i < j => Carries(last[1], i, j)

\* a phone-number map that lost entries only
Pruned(new, old) ==
    /\ DOMAIN new \subseteq DOMAIN old
    /\ \A n \in DOMAIN new : new[n] = old[n]

\* the document g has the phone-number maps of f with entries pruned, and
\* its other fields as they are in f
OnlyPruned(f, g) ==
    /\ \A k \in ConfigKeys :
          /\ Pruned(g[k].phoneNumbers, f[k].phoneNumbers)
          /\ g[k].apiKey = f[k].apiKey
    /\ DOMAIN g.domains = DOMAIN f.domains
    /\ \A d \in DOMAIN f.domains :
          /\ g.domains[d].apiKey = f.domains[d].apiKey
          /\ g.domains[d].alias = f.domains[d].alias
          /\ g.domains[d].autoAlias = f.domains[d].autoAlias
          /\ g.domains[d].inboundSipUri = f.domains[d].inboundSipUri
          /\ g.domains[d].tenant = f.domains[d].tenant
          /\ \A k \in SectionKeys :
                /\ g.domains[d].sections[k].trunkCredentialId
                      = f.domains[d].sections[k].trunkCredentialId
                /\ Pruned(g.domains[d].sections[k].phoneNumbers,
                          f.domains[d].sections[k].phoneNumbers)

\* the pass left the sections of the other providers as they were
OthersUntouched(name, p) ==
    /\ \A k \in ConfigKeys \ {ConfigKeyOf(name)} : p.after[k] = p.before[k]
    /\ \A d \in DOMAIN p.before.domains, k \in SectionKeys \ ProviderKeys(name) :
          /\ d \in DOMAIN p.after.domains
          /\ p.after.domains[d].sections[k] = p.before.domains[d].sections[k]

\* C30: sync only prunes: after a run every phone-number map is a subset of
\* its value before the run with the surviving records unchanged, the
\* Cloudonix fields of every domain, every trunkCredentialId and every
\* provider apiKey are unchanged, and the pass of a provider changes no
\* section of another provider.
C30_SyncOnlyPrunes ==
    Ran => /\ OnlyPruned(StartOf(last[1]), store)
           /\ \A name \in PassSet : OthersUntouched(name, last[1].pass[name])

====
